---- MODULE Spec2Model ----
(***************************************************************************)
(* Model of the voxelisation pipeline of polarseg-kitti                    *)
(* (src/src/data/dataloader.py): SemanticKITTI, voxelised_dataset and the  *)
(* compiled voting kernel label_voting.                                    *)
(*                                                                         *)
(* The specifications of the module:                                       *)
(*   VoteSpec    lexsort + label_voting on bounded (grid index, label)     *)
(*               sequences with indices inside the grid;                   *)
(*   Spec        voxelised_dataset.__getitem__ on one dataset object,      *)
(*               called again and again (self.min_vol / self.max_vol       *)
(*               live across the calls);                                   *)
(*   SphSpec     Spec started in the spherical configurations only;        *)
(*   LoaderSpec  SemanticKITTI.__init__ / __getitem__ over a directory of  *)
(*               scan and label files.                                     *)
(***************************************************************************)
EXTENDS Integers, Sequences, FiniteSets, TLC

VARIABLES
    \* ---- label_voting on its own (VoteSpec)
    vote_in,        \* the unsorted rows <<i, j, k, label>> (raw_point_label)
    vote_out,       \* what label_voting returned: [grid, outcome]
    \* ---- voxelised_dataset (Spec)
    config,         \* self.config and the build of the kernel; fixed by Init
    min_vol,        \* self.min_vol
    max_vol,        \* self.max_vol
    ret,            \* what the last __getitem__ returned or raised
    \* ---- SemanticKITTI (LoaderSpec)
    disk,           \* the split and the files of its sequence folder
    scan_list,      \* self.scan_list
    label_list,     \* self.label_list
    loaded          \* what the last SemanticKITTI.__getitem__ returned or raised

vars == <<vote_in, vote_out, config, min_vol, max_vol, ret,
          disk, scan_list, label_list, loaded>>

voteVars   == <<vote_in, vote_out>>
voxVars    == <<config, min_vol, max_vol, ret>>
loaderVars == <<disk, scan_list, label_list, loaded>>

(***************************************************************************)
(* Bounds of the model.                                                    *)
(***************************************************************************)
MaxVotePts == 3     \* longest (grid index, label) sequence given to the vote
MaxLabel   == 2     \* labels are drawn from 0..MaxLabel
MantBits   == 6     \* significand width of the modelled binary floating point

(***************************************************************************)
(* Program constants.                                                      *)
(***************************************************************************)
NumBins       == 256   \* label_counter = np.zeros((256,))
unlabeled_idx == 0     \* utils.ignore_class(config["semkitti_config"])

Labels == 0..MaxLabel

(***************************************************************************)
(* The values of the variables a specification does not use.               *)
(***************************************************************************)
NoVox ==
    /\ config = [projection_type |-> "none"] /\ min_vol = <<>> /\ max_vol = <<>>
    /\ ret = [status |-> "none"]

NoDisk == [data_split |-> "none", velodyne |-> {}, labels |-> {}]

NoLoader ==
    /\ disk = NoDisk /\ scan_list = <<>> /\ label_list = <<>>
    /\ loaded = [status |-> "none"]

NotVoted == [outcome |-> "none"]

NoVote == vote_in = <<>> /\ vote_out = NotVoted

(***************************************************************************)
(* Sequence helpers.                                                       *)
(***************************************************************************)
SeqsUpTo(S, n) == UNION {[1..k -> S] : k \in 1..n}

\* the three components of a point or of a grid index
T3(f(_)) == <<f(1), f(2), f(3)>>

\* the array of n rows whose k-th row is f(k)
RECURSIVE SeqMap(_, _)
SeqMap(f(_), n) == IF n = 0 THEN <<>> ELSE Append(SeqMap(f, n - 1), f(n))

Min2(a, b) == IF a <= b THEN a ELSE b
Max2(a, b) == IF a >= b THEN a ELSE b

(***************************************************************************)
(* Binary floating point.  A value is a rational [n, d] with d a power of  *)
(* two, d = 0 standing for the non-finite values (n = 1: +inf, n = -1:     *)
(* -inf, n = 0: nan).  Every operation rounds its exact result to MantBits *)
(* significant bits, to nearest, ties to even, as numpy's float32/float64  *)
(* operations do with 24/53 bits.  Exponents are not bounded.              *)
(***************************************************************************)
Pow2(k) == 2^k

Abs(i) == IF i < 0 THEN -i ELSE i

Sign(i) == IF i < 0 THEN -1 ELSE IF i > 0 THEN 1 ELSE 0

RECURSIVE Reduce2(_, _)
Reduce2(n, d) ==
    IF d > 1 /\ n % 2 = 0 THEN Reduce2(n \div 2, d \div 2) ELSE [n |-> n, d |-> d]

\* num/den > 0 scaled by 2^-e into [2^(MantBits-1), 2^MantBits), then rounded
RECURSIVE RoundPos(_, _, _)
RoundPos(num, den, e) ==
    IF num >= den * Pow2(MantBits) THEN RoundPos(num, den * 2, e + 1)
    ELSE IF num < den * Pow2(MantBits - 1) THEN RoundPos(num * 2, den, e - 1)
    ELSE LET q == num \div den
             r == num % den
             m == IF 2 * r > den \/ (2 * r = den /\ q % 2 = 1) THEN q + 1 ELSE q
         IN  IF e >= 0 THEN [n |-> m * Pow2(e), d |-> 1]
             ELSE Reduce2(m, Pow2(-e))

\* the denominators of the finite values
DyadicDens == {2^k : k \in 0..30}

\* the float nearest to num/den (den > 0); a numerator of fewer than MantBits
\* bits over a power of two is a float already
RoundQ(num, den) ==
    IF num = 0 THEN [n |-> 0, d |-> 1]
    ELSE IF Abs(num) < Pow2(MantBits) /\ den \in DyadicDens THEN Reduce2(num, den)
    ELSE LET r == RoundPos(Abs(num), den, 0)
         IN  [n |-> Sign(num) * r.n, d |-> r.d]

FInt(i) == RoundQ(i, 1)

IsFinite(a) == a.d # 0

NaN == [n |-> 0, d |-> 0]

Inf(sgn) == [n |-> sgn, d |-> 0]

\* a / b; x/0 is +-inf, 0/0 is nan (numpy warns and goes on)
FDiv(a, b) ==
    IF ~IsFinite(a) \/ ~IsFinite(b)
    THEN IF a = NaN \/ b = NaN \/ (~IsFinite(a) /\ ~IsFinite(b)) THEN NaN
         ELSE IF IsFinite(a) THEN FInt(0)
         ELSE Inf(a.n * (IF b.n < 0 THEN -1 ELSE 1))
    ELSE IF b.n = 0 THEN (IF a.n = 0 THEN NaN ELSE Inf(Sign(a.n)))
    ELSE RoundQ(Sign(b.n) * a.n * b.d, a.d * Abs(b.n))

FMul(a, b) ==
    IF ~IsFinite(a) \/ ~IsFinite(b)
    THEN IF a = NaN \/ b = NaN \/ a.n = 0 \/ b.n = 0 THEN NaN
         ELSE Inf(Sign(a.n) * Sign(b.n))
    ELSE RoundQ(a.n * b.n, a.d * b.d)

FAdd(a, b) ==
    IF ~IsFinite(a) \/ ~IsFinite(b)
    THEN IF a = NaN \/ b = NaN THEN NaN
         ELSE IF ~IsFinite(a) /\ ~IsFinite(b) /\ a # b THEN NaN
         ELSE IF ~IsFinite(a) THEN a ELSE b
    ELSE RoundQ(a.n * b.d + b.n * a.d, a.d * b.d)

FNeg(a) == [n |-> -a.n, d |-> a.d]

FSub(a, b) == FAdd(a, FNeg(b))

\* a < b; a comparison with nan is false
FLess(a, b) ==
    IF a = NaN \/ b = NaN THEN FALSE
    ELSE IF ~IsFinite(a) THEN a.n < 0 /\ b # a
    ELSE IF ~IsFinite(b) THEN b.n > 0
    ELSE a.n * b.d < b.n * a.d

FMin(a, b) == IF FLess(b, a) THEN b ELSE a

FMax(a, b) == IF FLess(a, b) THEN b ELSE a

\* np.floor of a finite value, as an integer
FloorInt(a) == a.n \div a.d

(***************************************************************************)
(* The voxel grid: a dense array of shape grid_size, C-contiguous.         *)
(***************************************************************************)
Cells(gs) == (0..gs[1]-1) \X (0..gs[2]-1) \X (0..gs[3]-1)

NumCells(gs) == gs[1] * gs[2] * gs[3]

\* np.full(self.grid_size, self.unlabeled_idx, dtype=np.uint8)
FullGrid(gs) == [c \in Cells(gs) |-> unlabeled_idx]

InGrid(idx, gs) == \A a \in 1..3 : idx[a] >= 0 /\ idx[a] <= gs[a] - 1

(***************************************************************************)
(* np.lexsort((g[:,0], g[:,1], g[:,2])): a stable sort whose primary key   *)
(* is the LAST key given (column 2), then column 1, then column 0.         *)
(***************************************************************************)
LexLess(a, b) ==
    \/ a[3] < b[3]
    \/ a[3] = b[3] /\ a[2] < b[2]
    \/ a[3] = b[3] /\ a[2] = b[2] /\ a[1] < b[1]

\* r goes after every row that is not greater than it: the sort is stable
RECURSIVE InsertRow(_, _)
InsertRow(s, r) ==
    IF s = <<>> THEN <<r>>
    ELSE IF LexLess(r, Head(s)) THEN <<r>> \o s
    ELSE <<Head(s)>> \o InsertRow(Tail(s), r)

RECURSIVE LexSortFrom(_, _, _)
LexSortFrom(rows, k, acc) ==
    IF k > Len(rows) THEN acc
    ELSE LexSortFrom(rows, k + 1, InsertRow(acc, rows[k]))

\* mutant: the rows are given to the vote unsorted
LexSort_Unsorted(rows) == rows

\* raw_point_label[np.lexsort(...), :]
LexSort(rows) == LexSortFrom(rows, 1, <<>>)

(***************************************************************************)
(* label_voting.                                                           *)
(***************************************************************************)
\* mutant: the last index holding the maximum
ArgMax_Last(label_counter) ==
    LET counts == {label_counter[m] : m \in DOMAIN label_counter}
        top    == CHOOSE v \in counts : \A u \in counts : u <= v
    IN  CHOOSE l \in DOMAIN label_counter :
            /\ label_counter[l] = top
            /\ \A m \in DOMAIN label_counter : m > l => label_counter[m] # top

\* np.argmax(label_counter): the first index holding the maximum
ArgMax(label_counter) ==
    LET counts == {label_counter[m] : m \in DOMAIN label_counter}
        top    == CHOOSE v \in counts : \A u \in counts : u <= v
    IN  CHOOSE l \in DOMAIN label_counter :
            /\ label_counter[l] = top
            /\ \A m \in 0..l-1 : label_counter[m] # top

ZeroCounter == [l \in 0..NumBins-1 |-> 0]

\* numba's indexing of one axis: a negative index wraps once, and nothing
\* else is checked unless the kernel is built with bounds checking
WrapIndex(i, n) == IF i < 0 THEN i + n ELSE i

FlatOffset(idx, gs) ==
    WrapIndex(idx[1], gs[1]) * gs[2] * gs[3]
      + WrapIndex(idx[2], gs[2]) * gs[3]
      + WrapIndex(idx[3], gs[3])

CellAt(off, gs) == <<off \div (gs[2] * gs[3]), (off \div gs[3]) % gs[2], off % gs[3]>>

\* voxel_label[a[0], a[1], a[2]] = value.  st is [grid, outcome].
\*   inside the array                  the cell is written;
\*   outside, bounds checking on       IndexError;
\*   outside, bounds checking off      the byte at the flat offset is written:
\*                                     another cell of the array, or memory
\*                                     that is not the array's ("fault").
StoreVoxel(st, idx, value, gs, boundscheck) ==
    LET w == <<WrapIndex(idx[1], gs[1]), WrapIndex(idx[2], gs[2]),
               WrapIndex(idx[3], gs[3])>>
        off == FlatOffset(idx, gs)
    IN  IF st.outcome # "ok" THEN st
        ELSE IF InGrid(w, gs)
            THEN [st EXCEPT !.grid = [@ EXCEPT ![w] = value]]
        ELSE IF boundscheck
            THEN [st EXCEPT !.outcome = "IndexError"]
        ELSE IF off >= 0 /\ off < NumCells(gs)
            THEN [st EXCEPT !.grid = [@ EXCEPT ![CellAt(off, gs)] = value]]
        ELSE [st EXCEPT !.outcome = "fault"]

RowIdx(row) == <<row[1], row[2], row[3]>>

\* the loop of label_voting from row i on; a is compare_label_a
RECURSIVE VoteLoop(_, _, _, _, _, _, _)
VoteLoop(st, sorted_list, i, a, label_counter, gs, boundscheck) ==
    IF i > Len(sorted_list)
    THEN StoreVoxel(st, a, ArgMax(label_counter), gs, boundscheck)
    ELSE LET b == RowIdx(sorted_list[i])
             l == sorted_list[i][4]
         IN  IF a # b
             THEN VoteLoop(StoreVoxel(st, a, ArgMax(label_counter), gs, boundscheck),
                           sorted_list, i + 1, b,
                           [ZeroCounter EXCEPT ![l] = 1], gs, boundscheck)
             ELSE VoteLoop(st, sorted_list, i + 1, a,
                           [label_counter EXCEPT ![l] = @ + 1], gs, boundscheck)

\* label_voting(voxel_label, sorted_list): [grid, outcome]
label_voting(voxel_label, sorted_list, gs, boundscheck) ==
    VoteLoop([grid |-> voxel_label, outcome |-> "ok"], sorted_list, 2,
             RowIdx(sorted_list[1]),
             [ZeroCounter EXCEPT ![sorted_list[1][4]] = 1], gs, boundscheck)

\* mutant: only the first point reaches the vote
VoteGrid_FirstOnly(rows, gs, boundscheck) ==
    label_voting(FullGrid(gs), <<rows[1]>>, gs, boundscheck)

\* lines 247-252 of voxelised_dataset.__getitem__
VoteGrid(rows, gs, boundscheck) ==
    label_voting(FullGrid(gs), LexSort(rows), gs, boundscheck)

(***************************************************************************)
(* The inputs of voxelised_dataset.__getitem__.                            *)
(*                                                                         *)
(* A point of a scan is [xyz, refl, label, depth, yaw, pitch]: xyz are the *)
(* float32 coordinates (integers here), refl the reflectance, label the    *)
(* remapped label.  depth, yaw and pitch are what np.linalg.norm,          *)
(* np.arctan2 and np.arcsin give for the point (lines 213-219); they are   *)
(* read by the spherical projection only and are inputs of the model, in   *)
(* halves of a unit and in degrees.                                        *)
(***************************************************************************)
MaxPts == 2     \* longest scan

IntMin == -(2^24)   \* stands for the least int64
IntMax == 2^24      \* stands for the greatest int64

FVec(v) == <<FInt(v[1]), FInt(v[2]), FInt(v[3])>>

\* ---- augmentation (utils.random_flip, utils.random_rot)
\* reflect x, y or both
random_flip(c, fx, fy) ==
    <<IF fx THEN -c[1] ELSE c[1], IF fy THEN -c[2] ELSE c[2], c[3]>>

\* rotate about z; the angle is drawn among the quarter turns
RECURSIVE random_rot(_, _)
random_rot(c, quarter) ==
    IF quarter = 0 THEN c ELSE random_rot(<<-c[2], c[1], c[3]>>, quarter - 1)

\* ---- utils.convert2polar: (x, y, z) -> (rho, theta, z)
RECURSIVE ISqrtBetween(_, _, _)
ISqrtBetween(n, lo, hi) ==
    IF lo = hi THEN lo
    ELSE LET mid == (lo + hi + 1) \div 2
         IN  IF mid * mid <= n THEN ISqrtBetween(n, mid, hi)
             ELSE ISqrtBetween(n, lo, mid - 1)

\* sqrt of an integer, correctly rounded (the odd numerator is the sticky bit)
FSqrt(n) ==
    LET s == ISqrtBetween(n * Pow2(20), 0, 8192)
    IN  IF s * s = n * Pow2(20) THEN RoundQ(s, 1024) ELSE RoundQ(2 * s + 1, 2048)

\* arctan(b/a) for 0 <= b <= a <= 5, a > 0, in 1/1024 of a radian
ArcTanTable ==
    [ba \in {<<b, a>> : b \in 0..5, a \in 1..5} |->
        CASE ba[1] = 0 -> 0
          [] ba[1] = ba[2] -> 804
          [] ba = <<1, 2>> -> 475 [] ba = <<1, 3>> -> 329 [] ba = <<2, 3>> -> 602
          [] ba = <<1, 4>> -> 251 [] ba = <<2, 4>> -> 475 [] ba = <<3, 4>> -> 659
          [] ba = <<1, 5>> -> 202 [] ba = <<2, 5>> -> 390 [] ba = <<3, 5>> -> 553
          [] ba = <<4, 5>> -> 691
          [] OTHER -> 0]

PiFix == 3217       \* pi in 1/1024 of a radian

\* np.arctan2(y, x) in 1/1024 of a radian
ArcTan2Fix(y, x) ==
    LET a == Abs(x)
        b == Abs(y)
        first == IF a = 0 /\ b = 0 THEN 0
                 ELSE IF b <= a THEN ArcTanTable[<<b, a>>]
                 ELSE (PiFix \div 2) - ArcTanTable[<<a, b>>]
        upper == IF x >= 0 THEN first ELSE PiFix - first
    IN  IF y < 0 THEN -upper ELSE upper

convert2polar(c) ==
    <<FSqrt(c[1] * c[1] + c[2] * c[2]), RoundQ(ArcTan2Fix(c[2], c[1]), 1024), FInt(c[3])>>

\* ---- utils.rebase: clip to the configured volume, then move to its origin
FClip(v, lo, hi) == FMin(FMax(v, lo), hi)

rebase(coordinate, lo, hi) ==
    SeqMap(LAMBDA k :
               T3(LAMBDA a : FSub(FClip(coordinate[k][a], lo[a], hi[a]), lo[a])),
           Len(coordinate))

\* np.amax / np.amin(coordinate, axis=0)
RECURSIVE FoldAxis(_, _, _, _, _)
FoldAxis(Op(_, _), coordinate, a, k, acc) ==
    IF k > Len(coordinate) THEN acc
    ELSE FoldAxis(Op, coordinate, a, k + 1, Op(acc, coordinate[k][a]))

amax(coordinate) ==
    T3(LAMBDA a : FoldAxis(FMax, coordinate, a, 2, coordinate[1][a]))

amin(coordinate) ==
    T3(LAMBDA a : FoldAxis(FMin, coordinate, a, 2, coordinate[1][a]))

\* ---- .astype(int) of a floored value.  The conversion of a non-finite
\* value is undefined: x86-64 gives the least integer, aarch64 saturates
\* and turns nan into 0.
AsInt(v, arch) ==
    IF IsFinite(v) THEN FloorInt(v)
    ELSE IF arch = "x86_64" THEN IntMin
    ELSE IF v = NaN THEN 0
    ELSE IF v.n > 0 THEN IntMax ELSE IntMin

\* ---- lines 241-244: the voxel size and the grid index of every point
VoxelSize(lo, hi, grid_size) ==
    T3(LAMBDA a : FDiv(FSub(hi[a], lo[a]), FInt(grid_size[a] - 1)))

GridIndexOf(rebased, voxel_size, arch) ==
    T3(LAMBDA a : AsInt(FDiv(rebased[a], voxel_size[a]), arch))

\* ---- lines 205-237: the spherical projection
proj_fov_up   == 3      \* self.proj_fov_up = 3.0
proj_fov_down == -25    \* self.proj_fov_down = -25.0

\* proj_h = (1.0 - (pitch + abs(fov_down)) / fov) * self.proj_H
ProjH(pitch, H) ==
    FMul(FSub(FInt(1),
              FDiv(FAdd(FInt(pitch), FInt(Abs(proj_fov_down))),
                   FAdd(FInt(Abs(proj_fov_down)), FInt(Abs(proj_fov_up))))),
         FInt(H))

\* proj_w = (0.5 * (yaw / np.pi + 1.0)) * self.proj_W
ProjW(yaw, W) ==
    FMul(FMul(RoundQ(1, 2), FAdd(FDiv(FInt(yaw), FInt(180)), FInt(1))), FInt(W))

\* mutant: without np.minimum(size - 1, .)
ClampIndex_NoUpper(v, size) == Max2(0, FloorInt(v))

\* np.floor, np.minimum(size - 1, .), np.maximum(0, .)
ClampIndex(v, size) == Max2(0, Min2(size - 1, FloorInt(v)))

\* the loop of lines 235-236: the last i whose threshold the depth exceeds
\* leaves i + 1
DepthBin(depth, min_depth, max_depth, D) ==
    LET step == FDiv(FSub(max_depth, min_depth), FInt(D))
        thr(i) == FMul(step, FInt(i))
        over == {i \in 1..D-1 : FLess(thr(i), depth)}
    IN  IF over = {} THEN 0
        ELSE (CHOOSE i \in over : \A j \in over : j <= i) + 1

HalfUnits(h) == RoundQ(h, 2)

\* np.floor(np.max(depth)), np.floor(np.min(depth))
RECURSIVE FoldDepth(_, _, _, _)
FoldDepth(Op(_, _), scan, k, acc) ==
    IF k > Len(scan) THEN acc
    ELSE FoldDepth(Op, scan, k + 1, Op(acc, HalfUnits(scan[k].depth)))

FFloor(v) == FInt(FloorInt(v))

\* lines 214-215
MaxDepth(scan) == FFloor(FoldDepth(FMax, scan, 2, HalfUnits(scan[1].depth)))

MinDepth(scan) == FFloor(FoldDepth(FMin, scan, 2, HalfUnits(scan[1].depth)))

SphericalIndex(pt, min_depth, max_depth, grid_size) ==
    <<ClampIndex(ProjH(pt.pitch, grid_size[1]), grid_size[1]),
      ClampIndex(ProjW(pt.yaw, grid_size[2]), grid_size[2]),
      DepthBin(HalfUnits(pt.depth), min_depth, max_depth, grid_size[3])>>

(***************************************************************************)
(* voxelised_dataset.__getitem__, lines 176-287, as one function of the    *)
(* object's state (self_min, self_max), the scan the dataset gives for the *)
(* index, and the draws of the augmentation.  It gives the new             *)
(* self.min_vol / self.max_vol and what the call returns or raises.        *)
(***************************************************************************)
NoAug == [fx |-> FALSE, fy |-> FALSE, quarter |-> 0]

\* lines 183-189
Augmented(cfg, c, aug) ==
    LET flipped == IF cfg.flip THEN random_flip(c, aug.fx, aug.fy) ELSE c
    IN  IF cfg.rot THEN random_rot(flipped, aug.quarter) ELSE flipped

\* mutant: the polar 9-feature layout without the cartesian (x, y)
PtFeatures_NoXY(cfg, scan, k, xyz, coordinate, grid_index, voxel_size, lo) ==
    LET refl == FInt(scan[k].refl)
        voxel_center == T3(LAMBDA a :
            FAdd(FMul(FAdd(FInt(grid_index[a]), RoundQ(1, 2)), voxel_size[a]), lo[a]))
        centered_coordinate == T3(LAMBDA a : FSub(coordinate[a], voxel_center[a]))
    IN  IF cfg.projection_type = "spherical"
        THEN <<ProjH(scan[k].pitch, cfg.grid_size[1]),
               ProjW(scan[k].yaw, cfg.grid_size[2]),
               HalfUnits(scan[k].depth)>> \o coordinate \o <<refl>>
        ELSE IF cfg.projection_type = "polar" /\ ~cfg.features9
        THEN <<coordinate[1], coordinate[2], refl>>
        ELSE centered_coordinate \o coordinate \o <<refl>>

\* lines 255-270
PtFeatures(cfg, scan, k, xyz, coordinate, grid_index, voxel_size, lo) ==
    LET refl == FInt(scan[k].refl)
        voxel_center == T3(LAMBDA a :
            FAdd(FMul(FAdd(FInt(grid_index[a]), RoundQ(1, 2)), voxel_size[a]), lo[a]))
        centered_coordinate == T3(LAMBDA a : FSub(coordinate[a], voxel_center[a]))
        coordinate_xy == <<FInt(xyz[1]), FInt(xyz[2])>>
    IN  IF cfg.projection_type = "spherical"
        THEN <<ProjH(scan[k].pitch, cfg.grid_size[1]),
               ProjW(scan[k].yaw, cfg.grid_size[2]),
               HalfUnits(scan[k].depth)>> \o coordinate \o <<refl>>
        ELSE IF cfg.projection_type = "polar"
        THEN IF cfg.features9
             THEN centered_coordinate \o coordinate \o <<refl>> \o coordinate_xy
             ELSE <<coordinate[1], coordinate[2], refl>>
        ELSE centered_coordinate \o coordinate \o <<refl>>

\* lines 191-194: the projected coordinate of a point
Projected(cfg, c) ==
    IF cfg.projection_type = "polar" THEN convert2polar(c) ELSE FVec(c)

GetItemResult(cfg, self_min, self_max, scan, aug) ==
    LET N == Len(scan)
        xyz == SeqMap(LAMBDA k : Augmented(cfg, scan[k].xyz, aug), N)
        coordinate == SeqMap(LAMBDA k : Projected(cfg, xyz[k]), N)
        \* lines 196-203
        rebased_coordinate ==
            IF cfg.fixed_vol THEN rebase(coordinate, self_min, self_max)
            ELSE SeqMap(LAMBDA k :
                            T3(LAMBDA a : FSub(coordinate[k][a], self_min[a])), N)
        new_max == IF cfg.fixed_vol THEN self_max ELSE amax(coordinate)
        new_min == IF cfg.fixed_vol THEN self_min ELSE amin(coordinate)
        \* lines 205-244
        voxel_size == VoxelSize(new_min, new_max, cfg.grid_size)
        max_depth == MaxDepth(scan)
        min_depth == MinDepth(scan)
        grid_index ==
            IF cfg.projection_type = "spherical"
            THEN SeqMap(LAMBDA k : SphericalIndex(scan[k], min_depth, max_depth,
                                                  cfg.grid_size), N)
            ELSE SeqMap(LAMBDA k :
                            GridIndexOf(rebased_coordinate[k], voxel_size, cfg.arch), N)
        \* lines 246-252
        raw_point_label ==
            SeqMap(LAMBDA k : <<grid_index[k][1], grid_index[k][2],
                                grid_index[k][3], scan[k].label>>, N)
        voted == VoteGrid(raw_point_label, cfg.grid_size, cfg.boundscheck)
    IN  [min_vol |-> new_min,
         max_vol |-> new_max,
         ret |-> [status      |-> voted.outcome,
                  scan        |-> scan,
                  voxel_label |-> voted.grid,
                  grid_index  |-> grid_index,
                  labels      |-> SeqMap(LAMBDA k : scan[k].label, N),
                  pt_features |-> SeqMap(LAMBDA k :
                      PtFeatures(cfg, scan, k, xyz[k], coordinate[k],
                                 grid_index[k], voxel_size, new_min), N)]]

(***************************************************************************)
(* Spec: one voxelised_dataset object serving __getitem__ calls.           *)
(***************************************************************************)
Projections == {"cartesian", "polar", "spherical"}

\* config["grid_size"], config["min_vol"], config["max_vol"]
ConfGridSize(projection) ==
    IF projection = "spherical" THEN <<4, 2, 4>> ELSE <<8, 2, 2>>

ConfMinVol == <<0, 0, 0>>

ConfMaxVol == <<4, 1, 1>>

BaseConfig(projection, fixed, nine) ==
    [projection_type |-> projection,
     fixed_vol       |-> fixed,
     flip            |-> FALSE,
     rot             |-> FALSE,
     features9       |-> nine,
     grid_size       |-> ConfGridSize(projection),
     min_vol         |-> ConfMinVol,
     max_vol         |-> ConfMaxVol,
     boundscheck     |-> FALSE,       \* NUMBA_BOUNDSCHECK of the kernel's build
     arch            |-> "x86_64"]

\* the configurations explored: every projection in both bound modes, with
\* the kernel built without and with bounds checking; the saturating
\* float-to-int conversion where a non-finite quotient can arise; the
\* augmentations on the fixed-volume cartesian and polar pipelines
Configs ==
    {BaseConfig(p, f, FALSE) : p \in Projections, f \in BOOLEAN}
    \cup {BaseConfig("polar", f, TRUE) : f \in BOOLEAN}
    \cup {[BaseConfig(p, f, FALSE) EXCEPT !.boundscheck = TRUE] :
             p \in Projections, f \in BOOLEAN}
    \cup {[BaseConfig("cartesian", FALSE, FALSE) EXCEPT !.arch = "aarch64"]}
    \cup {[BaseConfig(p, TRUE, p = "polar") EXCEPT !.flip = fr[1], !.rot = fr[2]] :
             p \in {"cartesian", "polar"},
             fr \in {<<TRUE, FALSE>>, <<FALSE, TRUE>>, <<TRUE, TRUE>>}}

\* ---- the points a scan is made of
\* cartesian and polar pipelines: a lattice around the configured volume,
\* labelled by the corner it lies on; depth, yaw and pitch are not read there
CartPoints ==
    {[xyz |-> <<x, yz[1], yz[2]>>, refl |-> 7, label |-> 1 + yz[1],
      depth |-> 2, yaw |-> 0, pitch |-> 0] :
        x \in {-1, 0, 4, 5}, yz \in {<<0, 0>>, <<1, 1>>}}

\* spherical pipeline: points given by depth (in halves), yaw and pitch (in
\* degrees); xyz is the same point to the nearest unit
CosFix(deg) ==
    CASE deg = 0 -> 1024 [] Abs(deg) = 3 -> 1023 [] Abs(deg) = 25 -> 928
      [] Abs(deg) = 90 -> 0

SinFix(deg) ==
    Sign(deg) * (CASE deg = 0 -> 0 [] Abs(deg) = 3 -> 54 [] Abs(deg) = 25 -> 433
                   [] Abs(deg) = 90 -> 1024)

RoundDiv(n, d) == (2 * n + d) \div (2 * d)

\* yaw = -arctan2(y, x), pitch = arcsin(z / depth)
SphXYZ(depth, yaw, pitch) ==
    <<RoundDiv(depth * CosFix(pitch) * CosFix(yaw), 2 * 1024 * 1024),
      RoundDiv(-(depth * CosFix(pitch) * SinFix(yaw)), 2 * 1024 * 1024),
      RoundDiv(depth * SinFix(pitch), 2 * 1024)>>

SphPoint(d, y, p) ==
    [xyz |-> SphXYZ(d, y, p), refl |-> 7, label |-> IF p < 0 THEN 1 ELSE 2,
     depth |-> d, yaw |-> y, pitch |-> p]

SphPoints ==
    {SphPoint(d, 90, p) : d \in {2, 4, 9}, p \in {-25, 3, 25}}
    \cup {SphPoint(4, -90, 3)}

ScansFor(cfg) ==
    SeqsUpTo(IF cfg.projection_type = "spherical" THEN SphPoints ELSE CartPoints,
             MaxPts)

AugsFor(cfg) ==
    [fx : IF cfg.flip THEN BOOLEAN ELSE {FALSE},
     fy : IF cfg.flip THEN BOOLEAN ELSE {FALSE},
     quarter : IF cfg.rot THEN 0..3 ELSE {0}]

Idle == [status |-> "idle"]

Init ==
    /\ config \in Configs
    /\ min_vol = FVec(config.min_vol)     \* line 164
    /\ max_vol = FVec(config.max_vol)     \* line 163
    /\ ret = Idle
    /\ NoVote /\ NoLoader

\* the DataLoader's worker calls self.voxelised_train[index]
GetItem ==
    /\ ret.status = "idle"
    /\ \E scan \in ScansFor(config) : \E aug \in AugsFor(config) :
         \E r \in {GetItemResult(config, min_vol, max_vol, scan, aug)} :
             /\ min_vol' = r.min_vol
             /\ max_vol' = r.max_vol
             /\ ret' = r.ret
    /\ UNCHANGED <<config, voteVars, loaderVars>>

\* the worker takes the sample (or the IndexError) and goes on to the next
\* index; after a write outside the array nothing more is known
Collect ==
    /\ ret.status \in {"ok", "IndexError"}
    /\ ret' = Idle
    /\ UNCHANGED <<config, min_vol, max_vol, voteVars, loaderVars>>

Next == GetItem \/ Collect

Spec == Init /\ [][Next]_vars

\* SphSpec: the same object, configured for the spherical projection
SphInit == Init /\ config.projection_type = "spherical"

SphSpec == SphInit /\ [][Next]_vars

(***************************************************************************)
(* Properties of voxelised_dataset.__getitem__ (Spec).                     *)
(***************************************************************************)
Returned == ret.status # "idle"

Unaugmented == ~config.flip /\ ~config.rot

NonSphericalFixed == config.projection_type # "spherical" /\ config.fixed_vol

\* C2: in the voxel grid returned by __getitem__ every cell that no point of
\* the sample maps to holds the ignore sentinel unlabeled_idx: only cells
\* named by some point's grid index are written by the voting pass.
C2_UntouchedCellsHoldSentinel ==
    ret.status = "ok" =>
        \A c \in Cells(config.grid_size) :
            (\A k \in DOMAIN ret.grid_index : ret.grid_index[k] # c)
                => ret.voxel_label[c] = unlabeled_idx

\* C3: for every sample, projection type and bound mode, each component of
\* every point's grid index lies in [0, grid_size_axis - 1] before it
\* addresses the voxel grid.
C3_GridIndexInBounds ==
    Returned =>
        \A k \in DOMAIN ret.grid_index : InGrid(ret.grid_index[k], config.grid_size)

\* what a dataset object that processed nothing before returns for the scan
FreshResult == GetItemResult(config, FVec(config.min_vol), FVec(config.max_vol),
                             ret.scan, NoAug).ret

\* C4: with augmentation disabled the sample returned for a scan is the same
\* whatever the dataset object processed before: the grid indices, the voxel
\* grid and the features are those a fresh object returns.
C4_IndependentOfHistory ==
    (ret.status = "ok" /\ Unaugmented) =>
        /\ FreshResult.status = "ok"
        /\ ret.grid_index = FreshResult.grid_index
        /\ ret.voxel_label = FreshResult.voxel_label
        /\ ret.pt_features = FreshResult.pt_features

\* C5: processing a sample leaves the object's min_vol and max_vol as
\* configured, in both bound modes.
C5_BoundsUnchanged ==
    /\ min_vol = FVec(config.min_vol)
    /\ max_vol = FVec(config.max_vol)

\* C6: in a non-spherical projection with fixed bounds a point whose
\* projected coordinate equals max_vol on an axis gets grid index
\* grid_size_axis - 1 on that axis, and a point at min_vol gets index 0.
C6_MaxVolMapsToLastCell ==
    (Returned /\ NonSphericalFixed /\ Unaugmented) =>
        \A k \in DOMAIN ret.scan : \A a \in 1..3 :
            LET c == Projected(config, ret.scan[k].xyz)[a]
            IN  /\ c = FInt(config.max_vol[a])
                    => ret.grid_index[k][a] = config.grid_size[a] - 1
                /\ c = FInt(config.min_vol[a]) => ret.grid_index[k][a] = 0

\* floor of the least and of the greatest depth of the returned scan; depths
\* are in halves of a unit
ScanMinDepth ==
    (CHOOSE h \in {ret.scan[k].depth : k \in DOMAIN ret.scan} :
        \A k \in DOMAIN ret.scan : h <= ret.scan[k].depth) \div 2

ScanMaxDepth ==
    (CHOOSE h \in {ret.scan[k].depth : k \in DOMAIN ret.scan} :
        \A k \in DOMAIN ret.scan : h >= ret.scan[k].depth) \div 2

\* the thresholds min_depth + i * (max_depth - min_depth) / D, 0 < i < D,
\* that a depth of h halves exceeds
ThresholdsExceeded(h, D) ==
    {i \in 1..D-1 :
        h * D > 2 * (ScanMinDepth * D + i * (ScanMaxDepth - ScanMinDepth))}

\* C7: in spherical projection the depth component of a grid index is the
\* number of the D-1 equal-width thresholds spanning [min_depth, max_depth]
\* of the sample that the point's depth exceeds; it lies in 0..D-1.
C7_DepthBinCountsThresholds ==
    (Returned /\ config.projection_type = "spherical") =>
        \A k \in DOMAIN ret.scan :
            /\ ret.grid_index[k][3] \in 0..config.grid_size[3]-1
            /\ ret.grid_index[k][3] =
                   Cardinality(ThresholdsExceeded(ret.scan[k].depth, config.grid_size[3]))

\* C8 as stated: in spherical projection a point at pitch exactly fov_up
\* maps to image row 0 and a point at pitch exactly -fov_down maps to image
\* row H-1 after clamping.
C8_MinusFovDownLastRow ==
    (Returned /\ config.projection_type = "spherical") =>
        \A k \in DOMAIN ret.scan :
            /\ ret.scan[k].pitch = proj_fov_up => ret.grid_index[k][1] = 0
            /\ ret.scan[k].pitch = -proj_fov_down
                   => ret.grid_index[k][1] = config.grid_size[1] - 1

\* C8: in spherical projection a point at pitch exactly fov_up maps to image
\* row 0 and a point at pitch exactly fov_down maps to image row H-1 after
\* clamping.
C8_FovBoundaryRows ==
    (Returned /\ config.projection_type = "spherical") =>
        \A k \in DOMAIN ret.scan :
            /\ ret.scan[k].pitch = proj_fov_up => ret.grid_index[k][1] = 0
            /\ ret.scan[k].pitch = proj_fov_down
                   => ret.grid_index[k][1] = config.grid_size[1] - 1

\* a spherical sample with a point at fov_up in row 0 and a point at fov_down
\* in row H-1
C8_Witness ==
    /\ Returned /\ config.projection_type = "spherical"
    /\ Len(ret.scan) = 2
    /\ ret.scan[1].pitch = proj_fov_up /\ ret.grid_index[1][1] = 0
    /\ ret.scan[2].pitch = proj_fov_down
    /\ ret.grid_index[2][1] = config.grid_size[1] - 1

\* the voxel size line 241 took for the returned sample: self.min_vol and
\* self.max_vol are what the call left them
UsedVoxelSize == VoxelSize(min_vol, max_vol, config.grid_size)

\* C11: in a non-spherical projection no grid index is computed by dividing
\* by a zero voxel size: when max_vol equals min_vol on an axis (configured,
\* or recomputed from the sample) the sample is rejected or the size floored.
C11_NoZeroVoxelSize ==
    (Returned /\ config.projection_type # "spherical") =>
        \A a \in 1..3 : UsedVoxelSize[a] # FInt(0)

\* the documented number of components of a feature row
FeatureWidth ==
    IF config.projection_type = "polar"
    THEN (IF config.features9 THEN 9 ELSE 3)
    ELSE 7

\* C12: the feature array has one row per input point, of 7 components for
\* the cartesian and the spherical projection, 9 for polar with the
\* 9features flag on and 3 for polar with the flag off.
C12_FeatureLayout ==
    ret.status = "ok" =>
        /\ Len(ret.pt_features) = Len(ret.scan)
        /\ \A k \in DOMAIN ret.pt_features : Len(ret.pt_features[k]) = FeatureWidth

\* a polar sample of two points with the 9features flag on, returned with
\* two rows of nine components
C12_Witness ==
    /\ ret.status = "ok"
    /\ config.projection_type = "polar" /\ config.features9
    /\ Len(ret.scan) = 2 /\ Len(ret.pt_features) = 2
    /\ Len(ret.pt_features[1]) = 9 /\ Len(ret.pt_features[2]) = 9

\* C13: for polar projection with the 9features flag off, the first two
\* feature components of every point are its cartesian (x, y) as they were
\* before the polar conversion, and the third is its reflectance.
C13_ReducedLayoutIsCartesianXY ==
    (ret.status = "ok" /\ config.projection_type = "polar" /\ ~config.features9
        /\ Unaugmented) =>
        \A k \in DOMAIN ret.scan :
            ret.pt_features[k] = <<FInt(ret.scan[k].xyz[1]), FInt(ret.scan[k].xyz[2]),
                                   FInt(ret.scan[k].refl)>>

\* the returned points that share the grid index of point k and carry label l
SampleCount(k, l) ==
    Cardinality({j \in DOMAIN ret.grid_index :
                    ret.grid_index[j] = ret.grid_index[k] /\ ret.labels[j] = l})

AllInGrid ==
    \A k \in DOMAIN ret.grid_index : InGrid(ret.grid_index[k], config.grid_size)

\* C14: for a scan of N points the grid-index array, the label array and the
\* feature array of the returned sample have N rows each, in the input
\* order, and all N (index, label) pairs take part in the vote: the voxel of
\* every point holds the lowest label of maximum count over all the points
\* of the scan that share its index.
C14_PointCountPreserved ==
    ret.status = "ok" =>
        /\ Len(ret.grid_index) = Len(ret.scan)
        /\ Len(ret.labels) = Len(ret.scan)
        /\ Len(ret.pt_features) = Len(ret.scan)
        /\ \A k \in DOMAIN ret.scan : ret.labels[k] = ret.scan[k].label
        /\ (Unaugmented /\ config.projection_type = "cartesian") =>
              \A k \in DOMAIN ret.scan :
                  SubSeq(ret.pt_features[k], 4, 6) = FVec(ret.scan[k].xyz)
        /\ (Unaugmented /\ config.projection_type = "cartesian" /\ config.fixed_vol) =>
              \A k, j \in DOMAIN ret.scan :
                  ret.scan[k].xyz[1] <= ret.scan[j].xyz[1]
                      => ret.grid_index[k][1] <= ret.grid_index[j][1]
        /\ AllInGrid =>
              \A k \in DOMAIN ret.scan :
                  LET won == ret.voxel_label[ret.grid_index[k]]
                  IN  \A l \in {ret.labels[j] : j \in DOMAIN ret.labels} :
                         /\ SampleCount(k, l) <= SampleCount(k, won)
                         /\ SampleCount(k, l) = SampleCount(k, won) => won <= l

\* a sample of MaxPts points in distinct voxels of the grid, each voxel
\* holding the label of its point
C14_Witness ==
    /\ ret.status = "ok" /\ AllInGrid
    /\ Len(ret.scan) = MaxPts /\ Len(ret.grid_index) = MaxPts
    /\ \A k, j \in DOMAIN ret.scan : k # j => ret.grid_index[k] # ret.grid_index[j]
    /\ \A k \in DOMAIN ret.scan :
           ret.voxel_label[ret.grid_index[k]] = ret.scan[k].label

\* line 200: what is subtracted is self.min_vol as the call found it
RebasedNonFixed(c, a) == FSub(Projected(config, c)[a], min_vol[a])

\* C15: in a non-spherical projection with bounds not fixed every rebased
\* component of a point lies in [0, max_vol - min_vol], min_vol and max_vol
\* being the extents of the same sample, those the voxel size is computed
\* from (self.min_vol and self.max_vol after the call).
C15_RebasedAgainstOwnExtents ==
    [][(/\ ret.status = "idle" /\ ret'.status # "idle"
        /\ config.projection_type # "spherical" /\ ~config.fixed_vol)
         => \A k \in DOMAIN ret'.scan : \A a \in 1..3 :
                /\ ~FLess(RebasedNonFixed(ret'.scan[k].xyz, a), FInt(0))
                /\ ~FLess(FSub(max_vol'[a], min_vol'[a]),
                          RebasedNonFixed(ret'.scan[k].xyz, a))]_vars

(***************************************************************************)
(* VoteSpec: the vote on its own.                                          *)
(***************************************************************************)
VoteShape == <<2, 1, 2>>

VoteRows == Cells(VoteShape) \X Labels

Row4(r) == <<r[1][1], r[1][2], r[1][3], r[2]>>

VoteInit ==
    /\ \E s \in SeqsUpTo(VoteRows, MaxVotePts) :
           vote_in = [k \in DOMAIN s |-> Row4(s[k])]
    /\ vote_out = NotVoted
    /\ NoVox /\ NoLoader

Vote ==
    /\ vote_out.outcome = "none"
    /\ vote_out' = VoteGrid(vote_in, VoteShape, FALSE)
    /\ UNCHANGED <<vote_in, voxVars, loaderVars>>

VoteNext == Vote

VoteSpec == VoteInit /\ [][VoteNext]_vars

\* the points of the input that map to cell c with label l
VoteCount(c, l) ==
    Cardinality({k \in DOMAIN vote_in : RowIdx(vote_in[k]) = c /\ vote_in[k][4] = l})

VoteTouched(c) == \E k \in DOMAIN vote_in : RowIdx(vote_in[k]) = c

\* C1: after the sort and the label_voting scan every voxel some point maps
\* to holds the lowest-id label among the labels with the maximum occurrence
\* count for that voxel.
C1_LowestMajorityLabel ==
    vote_out.outcome # "none" =>
        /\ vote_out.outcome = "ok"
        /\ \A c \in Cells(VoteShape) :
              VoteTouched(c) =>
                  /\ \A m \in Labels : VoteCount(c, m) <= VoteCount(c, vote_out.grid[c])
                  /\ \A m \in Labels :
                        VoteCount(c, m) = VoteCount(c, vote_out.grid[c])
                            => vote_out.grid[c] <= m

\* a tie of labels 1 and 2 in one voxel, given with a point of another voxel
\* between them, resolved to 1
C1_Witness ==
    /\ vote_out.outcome = "ok"
    /\ Len(vote_in) = 3
    /\ RowIdx(vote_in[1]) = RowIdx(vote_in[3])
    /\ RowIdx(vote_in[2]) # RowIdx(vote_in[1])
    /\ vote_in[1][4] = 2 /\ vote_in[3][4] = 1
    /\ vote_out.grid[RowIdx(vote_in[1])] = 1

\* the rows with those at positions i and j exchanged
SwapRows(rows, i, j) == [rows EXCEPT ![i] = rows[j], ![j] = rows[i]]

\* C16: the resolved voxel grid depends only on the multiset of
\* (grid index, label) pairs: exchanging any two input rows (the exchanges
\* generate every permutation, and every input sequence is checked) leaves
\* the grid the same; a voxel no row names is never committed, and a voxel
\* some row names holds a label counted from its own rows.
C16_PermutationInvariant ==
    vote_out.outcome # "none" =>
        /\ \A i, j \in DOMAIN vote_in :
              i < j => VoteGrid(SwapRows(vote_in, i, j), VoteShape, FALSE) = vote_out
        /\ \A c \in Cells(VoteShape) :
              IF VoteTouched(c)
              THEN VoteCount(c, vote_out.grid[c]) >= 1
              ELSE vote_out.grid[c] = unlabeled_idx

\* three rows, the first and the last in one voxel with different labels and
\* the second in another voxel, voted to the grid their reversal gives
C16_Witness ==
    /\ vote_out.outcome = "ok"
    /\ Len(vote_in) = 3
    /\ RowIdx(vote_in[1]) = RowIdx(vote_in[3])
    /\ RowIdx(vote_in[2]) # RowIdx(vote_in[1])
    /\ vote_in[1][4] # vote_in[3][4]
    /\ VoteGrid(SwapRows(vote_in, 1, 3), VoteShape, FALSE) = vote_out


(***************************************************************************)
(* LoaderSpec: SemanticKITTI over one sequence folder.  A file is          *)
(* [name, rows]: the frame number that names it and the number of records  *)
(* it decodes to (points of a .bin, labels of a .label).  utils.getPath is *)
(* taken to give the paths of the files present in the folder.             *)
(***************************************************************************)
MaxFrames   == 3    \* frames of the sequence
MaxFileRows == 2    \* most records in a file

Frames == 1..MaxFrames

\* the folders that can be on disk: at most one file per frame in each
Folders ==
    {{[name |-> f, rows |-> rows[f]] : f \in present} :
        present \in SUBSET Frames, rows \in [Frames -> 1..MaxFileRows]}

getPath(folder) == {file.name : file \in folder}

\* list.sort() of the paths
RECURSIVE SortedList(_)
SortedList(names) ==
    IF names = {} THEN <<>>
    ELSE LET first == CHOOSE n \in names : \A m \in names : n <= m
         IN  <<first>> \o SortedList(names \ {first})

\* np.fromfile(path).reshape(-1, k): the file has been listed, so it is there
FromFile(folder, path) == CHOOSE file \in folder : file.name = path

LoaderInit ==
    /\ disk \in [data_split : {"train", "valid", "test"},
                 velodyne : Folders, labels : Folders]
    /\ scan_list = <<>> /\ label_list = <<>>
    /\ loaded = [status |-> "new"]
    /\ NoVote /\ NoVox

\* SemanticKITTI.__init__
Construct ==
    /\ loaded.status = "new"
    /\ scan_list' = SortedList(getPath(disk.velodyne))
    /\ label_list' = SortedList(getPath(disk.labels))
    /\ loaded' = [status |-> "ready"]
    /\ UNCHANGED <<disk, voteVars, voxVars>>

\* SemanticKITTI.__getitem__(index), index drawn by the sampler from
\* range(len(self))
LoaderGetItem ==
    /\ loaded.status # "new"
    /\ \E index \in 0..Len(scan_list)-1 :
         LET scan == FromFile(disk.velodyne, scan_list[index + 1])
         IN  loaded' =
                 IF disk.data_split = "test"
                 THEN [status |-> "ok", index |-> index, scan |-> scan,
                       labels |-> [name |-> 0, rows |-> scan.rows]]
                 ELSE IF index + 1 > Len(label_list)
                 THEN [status |-> "IndexError", index |-> index]
                 ELSE [status |-> "ok", index |-> index, scan |-> scan,
                       labels |-> FromFile(disk.labels, label_list[index + 1])]
    /\ UNCHANGED <<disk, scan_list, label_list, voteVars, voxVars>>

LoaderNext == Construct \/ LoaderGetItem

LoaderSpec == LoaderInit /\ [][LoaderNext]_vars

Labelled == disk.data_split # "test"

Loaded == loaded.status \in {"ok", "IndexError"}

\* C9: for a labelled split, when the scan decodes to N points and the label
\* buffer to M # N entries, __getitem__ fails: it never returns a
\* (scan, labels) pair of unequal lengths.
C9_UnequalCountsRejected ==
    (Labelled /\ loaded.status = "ok") => loaded.scan.rows = loaded.labels.rows

\* C10: for a labelled split, loading a scan whose label file is absent
\* fails, and every scan that is loaded is paired with the label file of the
\* same scan, never with another scan's labels.
C10_MissingLabelNeverMispairs ==
    (Labelled /\ Loaded) =>
        /\ scan_list[loaded.index + 1] \notin getPath(disk.labels)
               => loaded.status # "ok"
        /\ loaded.status = "ok" => loaded.labels.name = loaded.scan.name

====
